---- MODULE Spec2Model ----
(***************************************************************************)
(* apt-sync: the install-forensics engine of src/main.rs.                  *)
(*                                                                         *)
(* Strings are TLA+ strings handled character by character (Len, SubSeq,   *)
(* \o), so prefix stripping, trimming, splitting and substring search are  *)
(* computed the way the Rust standard library computes them.               *)
(*                                                                         *)
(* The arithmetic of find_nearby_commands on i64 is carried out on a       *)
(* two's-complement word of WordBits bits, with the epochs of the runs in  *)
(* that range; the integers of TLC end below 2^63.                         *)
(*                                                                         *)
(* Specifications:                                                         *)
(*   Spec       parse_history scanning a transaction log line by line      *)
(*   SpecPkgs   parse_history_packages on one install-list line            *)
(*   SpecCo     siblings and same_day_neighbors over a list of events, and *)
(*              the two calls as cmd_why chains them                       *)
(*   SpecNear   find_nearby_commands over a shell history                  *)
(*   SpecNearOrd  the same over records at distinct distances              *)
(*   SpecNearWide  the same over records at the limits of i64              *)
(*   SpecWhy    cmd_why: the loop over the names and over their events     *)
(*   SpecJr     parse_journal_pwd over the lines of a journal              *)
(*   SpecSh     parse_shell_history over the lines of a history file       *)
(*   SpecPf     cmd_add and cmd_remove on the package file                 *)
(*   SpecLogs   read_history_logs over the rotated segments of the log     *)
(***************************************************************************)
EXTENDS Integers, Sequences, FiniteSets, TLC

VARIABLES
    log,          \* parse_history: the lines of the input scanned so far
    entries,      \* parse_history: Vec<HistoryEntry> built so far
    date,         \* parse_history: in-progress Start-Date value
    cmdline,      \* parse_history: in-progress Commandline value
    requested,    \* parse_history: in-progress Option<String>, <<>> or <<s>>
    installed,    \* parse_history: in-progress Vec<String>
    pkg_entries,  \* install-list line under construction, as its entries
    pkgs_line,    \* parse_history_packages: the argument
    pkgs_result,  \* parse_history_packages: <<>> before the call, <<r>> after
    co_entries,   \* co-occurrence: the parsed events, &[HistoryEntry]
    co_call,      \* co-occurrence: <<>> before a call, <<[fn, arguments, result]>> after
    shell_history, \* find_nearby_commands: &[ShellHistoryEntry]
    near_call,    \* find_nearby_commands: <<>> before the call, <<[arguments, result]>> after
    why_pc,       \* cmd_why: "start", "name" (top of the outer loop), "hit" (inner loop), "done"
    why_names,    \* cmd_why: the argument names
    why_entries,  \* cmd_why: entries, as parse_history returned them
    why_i,        \* cmd_why: how many names the outer loop has finished
    why_hits,     \* cmd_why: hits of the name in progress
    why_k,        \* cmd_why: how many hits the inner loop has finished
    why_out,      \* cmd_why: the lines printed so far
    why_ext,      \* what journalctl and date answered, one record per hit processed
    jr_lines,     \* parse_journal_pwd: the audit lines of journal_output, as written
    jr_call,      \* parse_journal_pwd: <<>> before the call, <<[arguments, HOME, result]>> after
    sh_lines,     \* parse_shell_history: the lines of contents, as written
    sh_call,      \* parse_shell_history: <<>> before the call, <<entries>> after
    pf_file,      \* the package file: <<>> when absent, <<lines>> when present
    pf_prev,      \* what load_packages returned at the start of the last operation
    pf_op,        \* the last operation on the package file and its names
    apt_dir,      \* the file names in /var/log/apt besides history.log
    rotated,      \* how many rotated segments logrotate has made
    logs_call     \* read_history_logs: <<>> before the call, <<[zcat, current, buf]>> after

histVars == <<log, entries, date, cmdline, requested, installed>>
pkgsVars == <<pkg_entries, pkgs_line, pkgs_result>>
coVars == <<co_entries, co_call>>
nearVars == <<shell_history, near_call>>
whyVars == <<why_pc, why_names, why_entries, why_i, why_hits, why_k, why_out, why_ext>>
jrVars == <<jr_lines, jr_call>>
shVars == <<sh_lines, sh_call>>
pfVars == <<pf_file, pf_prev, pf_op>>
logsVars == <<apt_dir, rotated, logs_call>>
vars == <<histVars, pkgsVars, coVars, nearVars, whyVars, jrVars, shVars, pfVars, logsVars>>

\* what the actions of one specification leave alone: the other groups
notHist == <<pkgsVars, coVars, nearVars, whyVars, jrVars, shVars, pfVars, logsVars>>
notPkgs == <<histVars, coVars, nearVars, whyVars, jrVars, shVars, pfVars, logsVars>>
notCo == <<histVars, pkgsVars, nearVars, whyVars, jrVars, shVars, pfVars, logsVars>>
notNear == <<histVars, pkgsVars, coVars, whyVars, jrVars, shVars, pfVars, logsVars>>
notWhy == <<histVars, pkgsVars, coVars, nearVars, jrVars, shVars, pfVars, logsVars>>
notJr == <<histVars, pkgsVars, coVars, nearVars, whyVars, shVars, pfVars, logsVars>>
notSh == <<histVars, pkgsVars, coVars, nearVars, whyVars, jrVars, pfVars, logsVars>>
notPf == <<histVars, pkgsVars, coVars, nearVars, whyVars, jrVars, shVars, logsVars>>
notLogs == <<histVars, pkgsVars, coVars, nearVars, whyVars, jrVars, shVars, pfVars>>

\* ---------------------------------------------------------------- bounds

MaxLines == 6
MaxPkgEntries == 3
MaxEntries == 3
MaxHistory == 6
MaxNames == 2
MaxJournal == 3
MaxShellLines == 3
MaxArgs == 2
MaxRotated == 11
WordBits == 16

\* ------------------------------------------------------- string helpers

\* Option<T>: None is <<>>, Some(x) is <<x>>.
None == <<>>
Some(x) == <<x>>

Char(s, i) == SubSeq(s, i, i)

IsWhitespace(c) == c \in {" ", "\t"}

StartsWith(s, p) == Len(s) >= Len(p) /\ SubSeq(s, 1, Len(p)) = p

\* str::strip_prefix, for a string known to start with p
StripPrefix(s, p) == SubSeq(s, Len(p) + 1, Len(s))

\* str::find: the 1-based index of the first occurrence of pat, 0 when absent
Find(s, pat) ==
    LET hits == {i \in 1..(Len(s) - Len(pat) + 1) : SubSeq(s, i, i + Len(pat) - 1) = pat}
    IN  IF hits = {} THEN 0 ELSE CHOOSE i \in hits : \A j \in hits : i <= j

Contains(s, pat) == Find(s, pat) # 0

RECURSIVE TrimStart(_)
TrimStart(s) ==
    IF Len(s) > 0 /\ IsWhitespace(Char(s, 1)) THEN TrimStart(SubSeq(s, 2, Len(s))) ELSE s

RECURSIVE TrimEnd(_)
TrimEnd(s) ==
    IF Len(s) > 0 /\ IsWhitespace(Char(s, Len(s))) THEN TrimEnd(SubSeq(s, 1, Len(s) - 1)) ELSE s

Trim(s) == TrimEnd(TrimStart(s))

\* str::split(sep): the pieces between the occurrences of sep, left to right
RECURSIVE Split(_, _)
Split(s, sep) ==
    LET i == Find(s, sep)
    IN  IF i = 0 THEN <<s>>
        ELSE <<SubSeq(s, 1, i - 1)>> \o Split(SubSeq(s, i + Len(sep), Len(s)), sep)

\* str::split_whitespace: the maximal runs of non-whitespace characters
RECURSIVE SplitWhitespace(_)
SplitWhitespace(s) ==
    LET t == TrimStart(s)
        ends == {i \in 1..Len(t) : IsWhitespace(Char(t, i))}
        e == IF ends = {} THEN Len(t) + 1 ELSE CHOOSE i \in ends : \A j \in ends : i <= j
    IN  IF t = "" THEN <<>>
        ELSE <<SubSeq(t, 1, e - 1)>> \o SplitWhitespace(SubSeq(t, e, Len(t)))

\* iterator.next().unwrap_or("")
FirstOr(seq, dflt) == IF seq = <<>> THEN dflt ELSE Head(seq)

\* ------------------------------------------------ parse_history_packages

\* entry.split(':').next(): the text before the first ':' (always Some)
EntryName(entry) == Head(Split(entry, ":"))

\* splitting on every ", " instead
EntrySeparator_Comma == ", "

EntrySeparator == "), "

\* the closure of filter_map: <<>> for None, <<name>> for Some(name)
PackageOfEntry(entry) ==
    LET name == EntryName(entry)
    IN  IF name = "" THEN None
        ELSE IF Contains(entry, "automatic") THEN None
        ELSE Some(name)

RECURSIVE FilterMapPackages(_)
FilterMapPackages(parts) ==
    IF parts = <<>> THEN <<>>
    ELSE PackageOfEntry(Head(parts)) \o FilterMapPackages(Tail(parts))

parse_history_packages(line) == FilterMapPackages(Split(line, EntrySeparator))

\* ---------------------------------------------------------- parse_history

HistoryEntry(d, c, r, i) ==
    [date |-> d, commandline |-> c, requested_by |-> r, installed |-> i]

\* emitting at every End-Date line, the emptiness test dropped
EndDateEmits_Always(line, inst) == StartsWith(line, "End-Date: ")

\* the condition of the last branch of the loop body
EndDateEmits(line, inst) == StartsWith(line, "End-Date: ") /\ inst # <<>>

\* The transaction-log lines the scanner is fed.
StartLines ==
    {"Start-Date: 2025-08-10  10:00:00", "Start-Date: 2025-08-10  14:00:00 "}
CommandLines ==
    {"Commandline: apt-get install uidmap"}
RequestedLines == {"Requested-By: user (1000)"}
InstallLines ==
    {"Install: uidmap:amd64 (1.0), gcc:amd64 (4:15.2, automatic)",
     "Install: make:amd64 (4.4, automatic)"}
OtherLines ==
    {"End-Date: 2025-08-10  10:01:00",
     "Upgrade: python3:amd64 (3.13.7-1, 3.13.7-2)"}
LogLines == StartLines \cup CommandLines \cup RequestedLines \cup InstallLines \cup OtherLines

InitHist ==
    /\ log = <<>>
    /\ entries = <<>>
    /\ date = ""
    /\ cmdline = ""
    /\ requested = None
    /\ installed = <<>>

\* the loop body with `installed.clear()` missing from the Start-Date branch
ScanLine_KeepInstalled(line) ==
    /\ Len(log) < MaxLines
    /\ log' = Append(log, line)
    /\ IF StartsWith(line, "Start-Date: ") THEN
           /\ date' = Trim(StripPrefix(line, "Start-Date: "))
           /\ cmdline' = ""
           /\ requested' = None
           /\ UNCHANGED <<entries, installed>>
       ELSE IF StartsWith(line, "Commandline: ") THEN
           /\ cmdline' = Trim(StripPrefix(line, "Commandline: "))
           /\ UNCHANGED <<entries, date, requested, installed>>
       ELSE IF StartsWith(line, "Requested-By: ") THEN
           /\ requested' = Some(Trim(StripPrefix(line, "Requested-By: ")))
           /\ UNCHANGED <<entries, date, cmdline, installed>>
       ELSE IF StartsWith(line, "Install: ") THEN
           /\ installed' = parse_history_packages(StripPrefix(line, "Install: "))
           /\ UNCHANGED <<entries, date, cmdline, requested>>
       ELSE IF EndDateEmits(line, installed) THEN
           /\ entries' = Append(entries, HistoryEntry(date, cmdline, requested, installed))
           /\ UNCHANGED <<date, cmdline, requested, installed>>
       ELSE UNCHANGED <<entries, date, cmdline, requested, installed>>

\* one iteration of `for line in log.lines()`
ScanLine(line) ==
    /\ Len(log) < MaxLines
    /\ log' = Append(log, line)
    /\ IF StartsWith(line, "Start-Date: ") THEN
           /\ date' = Trim(StripPrefix(line, "Start-Date: "))
           /\ cmdline' = ""
           /\ requested' = None
           /\ installed' = <<>>
           /\ UNCHANGED entries
       ELSE IF StartsWith(line, "Commandline: ") THEN
           /\ cmdline' = Trim(StripPrefix(line, "Commandline: "))
           /\ UNCHANGED <<entries, date, requested, installed>>
       ELSE IF StartsWith(line, "Requested-By: ") THEN
           /\ requested' = Some(Trim(StripPrefix(line, "Requested-By: ")))
           /\ UNCHANGED <<entries, date, cmdline, installed>>
       ELSE IF StartsWith(line, "Install: ") THEN
           /\ installed' = parse_history_packages(StripPrefix(line, "Install: "))
           /\ UNCHANGED <<entries, date, cmdline, requested>>
       ELSE IF EndDateEmits(line, installed) THEN
           /\ entries' = Append(entries, HistoryEntry(date, cmdline, requested, installed))
           /\ UNCHANGED <<date, cmdline, requested, installed>>
       ELSE UNCHANGED <<entries, date, cmdline, requested, installed>>

\* ------------------------------------- parse_history_packages as a call

PkgNames == {"gcc", "make", ""}
PkgRests ==
    {":amd64 (1.0)", ":amd64 (4:15.2, automatic)", ":amd64 (3.13.7-1, 3.13.7-2, 3.14)"}

InitPkgs ==
    /\ pkg_entries = <<>>
    /\ pkgs_line = ""
    /\ pkgs_result = None

\* apt writes an install list as its entries joined by ", "
AppendPkgEntry(name, rest) ==
    /\ pkgs_result = None
    /\ Len(pkg_entries) < MaxPkgEntries
    /\ pkg_entries' = Append(pkg_entries, [name |-> name, rest |-> rest])
    /\ pkgs_line' = IF pkg_entries = <<>> THEN name \o rest
                    ELSE pkgs_line \o ", " \o name \o rest
    /\ UNCHANGED pkgs_result

CallParsePackages ==
    /\ pkgs_result = None
    /\ pkgs_result' = Some(parse_history_packages(pkgs_line))
    /\ UNCHANGED <<pkg_entries, pkgs_line>>

\* ------------------------------------------------------- co-occurrence

\* the characters of the model's strings in byte order (str's Ord compares bytes)
ByteOrder == " #()+,-./0123456789:;=ABCDEFGHIJKLMNOPQRSTUVWXYZ_abcdefghijklmnopqrstuvwxyz~"

ByteRank(c) == Find(ByteOrder, c)

\* a < b for &str: lexicographic on bytes, a proper prefix first
RECURSIVE StrLess(_, _)
StrLess(a, b) ==
    IF b = "" THEN FALSE
    ELSE IF a = "" THEN TRUE
    ELSE IF Char(a, 1) = Char(b, 1)
         THEN StrLess(SubSeq(a, 2, Len(a)), SubSeq(b, 2, Len(b)))
         ELSE ByteRank(Char(a, 1)) < ByteRank(Char(b, 1))

\* BTreeSet<&str>::into_iter().collect(): the elements in ascending order
RECURSIVE AscendingSeq(_)
AscendingSeq(set) ==
    IF set = {} THEN <<>>
    ELSE LET least == CHOOSE x \in set : \A y \in set \ {x} : StrLess(x, y)
         IN  <<least>> \o AscendingSeq(set \ {least})

\* iter().copied().collect::<BTreeSet<_>>()
ToSet(seq) == {seq[i] : i \in 1..Len(seq)}

\* the filter of siblings without its test: every package is kept
KeepSibling_All(p, name) == TRUE

\* the closure of the filter of siblings
KeepSibling(p, name) == p # name

RECURSIVE siblings_of(_, _)
siblings_of(inst, name) ==
    IF inst = <<>> THEN <<>>
    ELSE (IF KeepSibling(Head(inst), name) THEN <<Head(inst)>> ELSE <<>>)
         \o siblings_of(Tail(inst), name)

siblings(entry, name) == siblings_of(entry.installed, name)

\* e.date.split_whitespace().next().unwrap_or("")
DayOf(d) == FirstOr(SplitWhitespace(d), "")

\* the first filter of same_day_neighbors: e is another event of entry's day
OtherSameDay(e, entry) ==
    /\ DayOf(e.date) = DayOf(entry.date)
    /\ ~(e.date = entry.date /\ e.commandline = entry.commandline)

\* flat_map over the events that pass the first filter
RECURSIVE FlatInstalled(_, _)
FlatInstalled(es, entry) ==
    IF es = <<>> THEN <<>>
    ELSE (IF OtherSameDay(Head(es), entry) THEN Head(es).installed ELSE <<>>)
         \o FlatInstalled(Tail(es), entry)

\* the second filter with the sibling test missing
KeepNeighbor_NameOnly(p, name, sibling_set) == p # name

\* the second filter of same_day_neighbors
KeepNeighbor(p, name, sibling_set) == p # name /\ p \notin sibling_set

\* the neighbours collected without the BTreeSet: first-seen order, repeats kept
same_day_neighbors_Unsorted(es, entry, name, sibling_set) ==
    SelectSeq(FlatInstalled(es, entry), LAMBDA p : KeepNeighbor(p, name, sibling_set))

same_day_neighbors(es, entry, name, sibling_set) ==
    LET flat == FlatInstalled(es, entry)
        kept == {flat[i] : i \in {j \in 1..Len(flat) : KeepNeighbor(flat[j], name, sibling_set)}}
    IN  AscendingSeq(kept)

\* the closure of the filter matching only the first installed package
Installs_FirstOnly(e, pkg) == e.installed # <<>> /\ e.installed[1] = pkg

\* the closure of the filter of find_install_history: e.installed.iter().any(|p| p == pkg)
Installs(e, pkg) == \E k \in 1..Len(e.installed) : e.installed[k] = pkg

\* entries.iter().filter(..).collect(): the matching events in slice order
RECURSIVE find_install_history(_, _)
find_install_history(es, pkg) ==
    IF es = <<>> THEN <<>>
    ELSE (IF Installs(Head(es), pkg) THEN <<Head(es)>> ELSE <<>>)
         \o find_install_history(Tail(es), pkg)

\* The events of the model: (date, command line) pairs and installed lists.
CoStamps ==
    {<<"2025-08-10  10:00:00", "apt-get install uidmap aardvark-dns">>,
     <<"2025-08-10  10:00:00", "apt-get install podman">>,
     <<"2025-08-10  14:00:00", "apt-get install podman">>,
     <<"2025-08-11  10:00:00", "apt-get install podman">>}
CoInstalled ==
    {<<"uidmap", "aardvark-dns">>, <<"podman", "aardvark-dns", "pod", "podman">>}
CoNames == {"uidmap", "aardvark-dns", "podman", "pod"}
CoSiblingSets == {{}, {"aardvark-dns"}, {"pod", "uidmap"}}
\* the names looked up: the installed ones, a proper prefix of one, an absent one
CoQueries == CoNames \cup {"aardvark", "vim"}

InitCo ==
    /\ co_entries = <<>>
    /\ co_call = None

\* parse_history has returned one more event
PushEntry(stamp, inst) ==
    /\ co_call = None
    /\ Len(co_entries) < MaxEntries
    /\ co_entries' = Append(co_entries, HistoryEntry(stamp[1], stamp[2], None, inst))
    /\ UNCHANGED co_call

CallSiblings(i, name) ==
    /\ co_call = None
    /\ i \in 1..Len(co_entries)
    /\ co_call' = Some([fn |-> "siblings", entry |-> co_entries[i], name |-> name,
                        sibling_set |-> {}, sibs |-> siblings(co_entries[i], name),
                        neighbors |-> <<>>, hits |-> <<>>])
    /\ UNCHANGED co_entries

CallSameDayNeighbors(i, name, sibling_set) ==
    /\ co_call = None
    /\ i \in 1..Len(co_entries)
    /\ co_call' = Some([fn |-> "same_day_neighbors", entry |-> co_entries[i], name |-> name,
                        sibling_set |-> sibling_set, sibs |-> <<>>,
                        neighbors |-> same_day_neighbors(co_entries, co_entries[i], name, sibling_set),
                        hits |-> <<>>])
    /\ UNCHANGED co_entries

CallFindInstallHistory(pkg) ==
    /\ co_call = None
    /\ co_call' = Some([fn |-> "find_install_history", entry |-> HistoryEntry("", "", None, <<>>),
                        name |-> pkg, sibling_set |-> {}, sibs |-> <<>>, neighbors |-> <<>>,
                        hits |-> find_install_history(co_entries, pkg)])
    /\ UNCHANGED co_entries

\* cmd_why for one hit: siblings, then same_day_neighbors seeded with them
WhyEvent(i, name) ==
    /\ co_call = None
    /\ i \in 1..Len(co_entries)
    /\ \E k \in 1..Len(co_entries[i].installed) : co_entries[i].installed[k] = name
    /\ LET sibs == siblings(co_entries[i], name)
           sibling_set == ToSet(sibs)
       IN  co_call' = Some([fn |-> "cmd_why", entry |-> co_entries[i], name |-> name,
                            sibling_set |-> sibling_set, sibs |-> sibs,
                            neighbors |-> same_day_neighbors(co_entries, co_entries[i], name, sibling_set),
                        hits |-> <<>>])
    /\ UNCHANGED co_entries

\* ------------------------------------------------ find_nearby_commands

ShellHistoryEntry(t, c) == [timestamp |-> t, command |-> c]

CapCommands == 5

Abs(x) == IF x < 0 THEN -x ELSE x

\* i64 as a two's-complement word of WordBits bits: i64::MIN and i64::MAX
WordMin == 0 - 2^(WordBits - 1)
WordMax == 2^(WordBits - 1) - 1

\* the word a result is stored in when the build does not check overflow
Wrap(x) == ((x - WordMin) % 2^WordBits) + WordMin

\* `entry.timestamp - target_epoch` or the `.abs()` of it leaves the range of i64
DeltaOverflows(timestamp, target_epoch) ==
    \/ timestamp - target_epoch < WordMin
    \/ timestamp - target_epoch > WordMax
    \/ Abs(Wrap(timestamp - target_epoch)) > WordMax

\* (entry.timestamp - target_epoch).abs() as a build without overflow checks
\* computes it: both operations wrap
Delta(timestamp, target_epoch) == Wrap(Abs(Wrap(timestamp - target_epoch)))

\* a build with overflow checks panics in the filter_map at the first record
\* whose distance overflows
Panics(history, target_epoch) ==
    \E n \in 1..Len(history) : DeltaOverflows(history[n].timestamp, target_epoch)

TrivialWords == {"ls", "clear", "exit", "pwd", "echo", "cat", "true", "history", ""}

\* is_interesting_command with "ls" missing from the list
is_interesting_command_NoLs(cmd) ==
    FirstOr(SplitWhitespace(cmd), "") \notin (TrivialWords \ {"ls"})

is_interesting_command(cmd) ==
    FirstOr(SplitWhitespace(cmd), "") \notin TrivialWords

\* the filter_map with the window test strict: the boundary left out
RECURSIVE WithinWindow_Strict(_, _, _)
WithinWindow_Strict(history, target_epoch, window_secs) ==
    IF history = <<>> THEN <<>>
    ELSE LET delta == Delta(Head(history).timestamp, target_epoch)
         IN  (IF delta < window_secs THEN <<<<Head(history), delta>>>> ELSE <<>>)
             \o WithinWindow_Strict(Tail(history), target_epoch, window_secs)

\* the filter_map: the records within the window, each with its distance
RECURSIVE WithinWindow(_, _, _)
WithinWindow(history, target_epoch, window_secs) ==
    IF history = <<>> THEN <<>>
    ELSE LET delta == Delta(Head(history).timestamp, target_epoch)
         IN  (IF delta <= window_secs THEN <<<<Head(history), delta>>>> ELSE <<>>)
             \o WithinWindow(Tail(history), target_epoch, window_secs)

\* x put before the elements at its own distance: ties come out reversed
RECURSIVE InsertByDelta_BeforeTies(_, _)
InsertByDelta_BeforeTies(x, sorted) ==
    IF sorted = <<>> THEN <<x>>
    ELSE IF Head(sorted)[2] < x[2]
         THEN <<Head(sorted)>> \o InsertByDelta_BeforeTies(x, Tail(sorted))
    ELSE <<x>> \o sorted

\* x put into a sequence sorted by distance, after every element not farther
RECURSIVE InsertByDelta(_, _)
InsertByDelta(x, sorted) ==
    IF sorted = <<>> THEN <<x>>
    ELSE IF Head(sorted)[2] <= x[2] THEN <<Head(sorted)>> \o InsertByDelta(x, Tail(sorted))
    ELSE <<x>> \o sorted

\* sort_by_key(|(_, delta)| *delta): a stable sort
RECURSIVE SortByDelta(_, _)
SortByDelta(todo, sorted) ==
    IF todo = <<>> THEN sorted
    ELSE SortByDelta(Tail(todo), InsertByDelta(Head(todo), sorted))

\* the apt test applied only when show_all is off
IsAptInstall_UnlessShowAll(cmd, show_all) ==
    ~show_all /\ (Contains(cmd, "apt-get install") \/ Contains(cmd, "apt install"))

\* the first test of the loop (show_all plays no part in it)
IsAptInstall(cmd, show_all) ==
    Contains(cmd, "apt-get install") \/ Contains(cmd, "apt install")

\* the cap tested with > in place of >=
CapReached_OffByOne(commands) == Len(commands) > CapCommands

CapReached(commands) == Len(commands) >= CapCommands

\* the loop over the sorted records
RECURSIVE CollectCommands(_, _, _)
CollectCommands(nearby, show_all, commands) ==
    IF nearby = <<>> THEN commands
    ELSE LET cmd == Head(nearby)[1].command
         IN  IF IsAptInstall(cmd, show_all) THEN CollectCommands(Tail(nearby), show_all, commands)
             ELSE IF ~show_all /\ ~is_interesting_command(cmd)
                  THEN CollectCommands(Tail(nearby), show_all, commands)
             ELSE LET pushed == Append(commands, cmd)
                  IN  IF CapReached(pushed) THEN pushed
                      ELSE CollectCommands(Tail(nearby), show_all, pushed)

find_nearby_commands(history, target_epoch, window_secs, show_all) ==
    CollectCommands(SortByDelta(WithinWindow(history, target_epoch, window_secs), <<>>),
                    show_all, <<>>)

\* The shell-history records of the model: within 300 s of 1200, every kind
\* of command; outside, one record.
NearRecords ==
    {<<1000, "git status">>, <<1000, "ls -la">>, <<1000, "">>,
     <<1000, "apt install bar">>, <<1000, "sudo apt-get install -y foo">>,
     <<1800, "vim README.md">>}
NearTargets == {1200}
NearWindows == {300}

\* The records of the ordering runs: distances 200, 100, 100, 300 (the
\* boundary) and 600 from 1200, each epoch with a command of its own, and an
\* install command at distance 100.
NearOrdRecords ==
    {<<1000, "git status">>, <<1100, "cd ~/project">>, <<1300, "make">>,
     <<1500, "make build">>, <<1800, "vim README.md">>, <<1100, "apt install bar">>}

InitNear ==
    /\ shell_history = <<>>
    /\ near_call = None

\* parse_shell_history has returned one more record
PushShellEntry(rec) ==
    /\ near_call = None
    /\ Len(shell_history) < MaxHistory
    /\ shell_history' = Append(shell_history, ShellHistoryEntry(rec[1], rec[2]))
    /\ UNCHANGED near_call

\* The records of the runs at the limits of i64, and the target epochs.
NearWideRecords == {<<WordMin, "make">>, <<WordMax, "git status">>, <<100, "vim README.md">>}
NearWideTargets == {WordMin, 0, 200, WordMax}

\* overflow_checks is the build: with the checks an overflow panics, without
\* them it wraps
CallFindNearby(target_epoch, window_secs, show_all, overflow_checks) ==
    /\ near_call = None
    /\ LET panicked == overflow_checks /\ Panics(shell_history, target_epoch)
       IN  near_call' = Some([target_epoch |-> target_epoch, window_secs |-> window_secs,
                              show_all |-> show_all, panicked |-> panicked,
                              result |-> IF panicked THEN <<>>
                                         ELSE find_nearby_commands(shell_history, target_epoch,
                                                                   window_secs, show_all)])
    /\ UNCHANGED shell_history

\* ---------------------------------------------------------------- cmd_why

\* usize as decimal text, as format!("{}") writes it
RECURSIVE ToDecimal(_)
ToDecimal(n) ==
    IF n < 10 THEN SubSeq("0123456789", n + 1, n + 1)
    ELSE ToDecimal(n \div 10) \o SubSeq("0123456789", (n % 10) + 1, (n % 10) + 1)

\* [&str]::join
RECURSIVE Join(_, _)
Join(seq, sep) ==
    IF seq = <<>> THEN ""
    ELSE IF Len(seq) = 1 THEN seq[1]
    ELSE seq[1] \o sep \o Join(Tail(seq), sep)

FormatMax == 10

format_pkg_list(pkgs) ==
    IF Len(pkgs) <= FormatMax THEN Join(pkgs, ", ")
    ELSE Join(SubSeq(pkgs, 1, FormatMax), ", ")
         \o " + " \o ToDecimal(Len(pkgs) - FormatMax) \o " more"

\* one println! of cmd_why: which format string, and the values it interpolates
OutLine(kind, a, b) == [kind |-> kind, a |-> a, b |-> b]

\* names.iter().enumerate(), taken from the far end
NameAt_Reversed(names, i) == names[Len(names) + 1 - i]

\* names.iter().enumerate(): the i-th name of the loop, counted from 1
NameAt(names, i) == names[i]

\* the inner loop up to the journal lookup: the date line and the requester
EventHead(entry) ==
    <<OutLine("date", FirstOr(SplitWhitespace(entry.date), entry.date), entry.commandline)>>
    \o (IF entry.requested_by # None THEN <<OutLine("by", entry.requested_by[1], "")>> ELSE <<>>)

\* the inner loop after the journal lookup: siblings, neighbours, shell context;
\* epoch is what apt_date_to_epoch returned
EventTail(es, entry, name, epoch, history, window_secs, show_all) ==
    LET sibs == siblings(entry, name)
        sibling_set == ToSet(sibs)
        neighbors == same_day_neighbors(es, entry, name, sibling_set)
        nearby == IF epoch # None
                  THEN find_nearby_commands(history, epoch[1], window_secs, show_all)
                  ELSE <<>>
    IN  (IF sibs # <<>> THEN <<OutLine("with", format_pkg_list(sibs), "")>> ELSE <<>>)
        \o (IF neighbors # <<>> THEN <<OutLine("also", format_pkg_list(neighbors), "")>> ELSE <<>>)
        \o (IF nearby # <<>>
            THEN <<OutLine("around", "", "")>>
                 \o [n \in 1..Len(nearby) |-> OutLine("cmd", nearby[n], "")]
            ELSE <<>>)

\* the body of the inner loop giving up on the event when the journal has no answer
EventLines_StopAtJournal(es, entry, name, pwd, epoch, history, window_secs, show_all) ==
    EventHead(entry)
    \o (IF pwd # None
        THEN <<OutLine("in", pwd[1], "")>>
             \o EventTail(es, entry, name, epoch, history, window_secs, show_all)
        ELSE <<>>)

\* the lines the body of the inner loop prints for one hit; pwd is what
\* read_journal_pwd returned
EventLines(es, entry, name, pwd, epoch, history, window_secs, show_all) ==
    EventHead(entry)
    \o (IF pwd # None THEN <<OutLine("in", pwd[1], "")>> ELSE <<>>)
    \o EventTail(es, entry, name, epoch, history, window_secs, show_all)

\* The runs of the model: the queried names, three transaction logs as parsed,
\* a shell history with one command near 1200, and the window of five minutes.
WhyNameSet == {"podman", "uidmap", "vim"}
WhyEvent1 ==
    HistoryEntry("2025-08-10  10:00:00", "apt-get install uidmap aardvark-dns",
                 Some("alice (1000)"), <<"uidmap", "aardvark-dns">>)
WhyEvent2 ==
    HistoryEntry("2025-08-10  14:00:00", "apt-get install podman", None,
                 <<"podman", "aardvark-dns">>)
WhyEvent3 ==
    HistoryEntry("2025-08-11  10:00:00", "apt-get install podman", None, <<"podman">>)
WhyLogs == {<<>>, <<WhyEvent1, WhyEvent2, WhyEvent3>>, <<WhyEvent3, WhyEvent1>>}
WhyShell == <<ShellHistoryEntry(1000, "git status"), ShellHistoryEntry(1100, "ls -la")>>
WhyWindowMins == 5
WhyPwds == {None, Some("~/proj")}
WhyEpochs == {None, Some(1200)}

InitWhy ==
    /\ why_pc = "start"
    /\ why_names = <<>>
    /\ why_entries = <<>>
    /\ why_i = 0
    /\ why_hits = <<>>
    /\ why_k = 0
    /\ why_out = <<>>
    /\ why_ext = <<>>

\* cmd_why is entered: the logs are read and parsed
WhyStart(names, es) ==
    /\ why_pc = "start"
    /\ why_pc' = "name"
    /\ why_names' = names
    /\ why_entries' = es
    /\ UNCHANGED <<why_i, why_hits, why_k, why_out, why_ext>>

\* the top of the outer loop for the next name, up to the inner loop
WhyName ==
    /\ why_pc = "name"
    /\ why_i < Len(why_names)
    /\ LET name == NameAt(why_names, why_i + 1)
           hits == find_install_history(why_entries, name)
           blank == IF why_i > 0 THEN <<OutLine("blank", "", "")>> ELSE <<>>
       IN  IF hits = <<>>
           THEN /\ why_out' = why_out \o blank \o <<OutLine("none", name, "")>>
                /\ why_i' = why_i + 1
                /\ UNCHANGED <<why_pc, why_hits, why_k>>
           ELSE /\ why_out' = why_out \o blank \o <<OutLine("name", name, "")>>
                /\ why_hits' = hits
                /\ why_k' = 0
                /\ why_pc' = "hit"
                /\ UNCHANGED why_i
    /\ UNCHANGED <<why_names, why_entries, why_ext>>

\* one pass of the inner loop; the journal and date answer pwd and epoch
WhyHit(pwd, epoch) ==
    /\ why_pc = "hit"
    /\ why_k < Len(why_hits)
    /\ LET name == NameAt(why_names, why_i + 1)
           entry == why_hits[why_k + 1]
       IN  /\ why_out' = why_out \o EventLines(why_entries, entry, name, pwd, epoch,
                                                WhyShell, WhyWindowMins * 60, FALSE)
           /\ why_ext' = Append(why_ext, [name |-> name, entry |-> entry,
                                          pwd |-> pwd, epoch |-> epoch])
    /\ why_k' = why_k + 1
    /\ IF why_k + 1 = Len(why_hits)
       THEN why_pc' = "name" /\ why_i' = why_i + 1
       ELSE UNCHANGED <<why_pc, why_i>>
    /\ UNCHANGED <<why_names, why_entries, why_hits>>

\* the outer loop is exhausted
WhyReturn ==
    /\ why_pc = "name"
    /\ why_i = Len(why_names)
    /\ why_pc' = "done"
    /\ UNCHANGED <<why_names, why_entries, why_i, why_hits, why_k, why_out, why_ext>>

\* ------------------------------------------------------- parse_journal_pwd

\* the closure of skip_while: a leading flag or a package-manager word
IsLeadingWord(w) == StartsWith(w, "-") \/ w \in {"apt-get", "apt", "install"}

RECURSIVE SkipLeading(_)
SkipLeading(ws) ==
    IF ws # <<>> /\ IsLeadingWord(Head(ws)) THEN SkipLeading(Tail(ws)) ELSE ws

\* pkg_names: the words after the leading ones, flags dropped
CandidateTokens(commandline) ==
    SelectSeq(SkipLeading(SplitWhitespace(commandline)), LAMBDA w : ~StartsWith(w, "-"))

\* the PWD value: from after "PWD=" to the next " ;" or the end of the line
PwdValue(line) ==
    LET after_pwd == SubSeq(line, Find(line, "PWD=") + 4, Len(line))
        sep == Find(after_pwd, " ;")
    IN  IF sep # 0 THEN SubSeq(after_pwd, 1, sep - 1) ELSE after_pwd

\* the COMMAND value: from after "COMMAND=" to the end of the line
CommandValue(line) == SubSeq(line, Find(line, "COMMAND=") + 8, Len(line))

\* the test of line 328
MatchesCommand(c, pkg_names) ==
    Contains(c, "apt") /\ \E n \in 1..Len(pkg_names) : Contains(c, pkg_names[n])

\* display_path: p.strip_prefix(&home), "~" for an empty rest, "~{rel}" otherwise
DisplayPath(p, home) ==
    IF StartsWith(p, home)
    THEN (IF StripPrefix(p, home) = "" THEN "~" ELSE "~" \o StripPrefix(p, home))
    ELSE p

\* the loop over journal_output.lines() from the line at position n on
RECURSIVE ScanJournal(_, _, _, _)
ScanJournal(lines, n, pkg_names, home) ==
    IF n > Len(lines) THEN None
    ELSE IF ~Contains(lines[n], "PWD=") \/ ~Contains(lines[n], "COMMAND=")
         THEN ScanJournal(lines, n + 1, pkg_names, home)
    ELSE IF MatchesCommand(CommandValue(lines[n]), pkg_names)
         THEN Some(DisplayPath(PwdValue(lines[n]), home))
    ELSE ScanJournal(lines, n + 1, pkg_names, home)

\* home is env::var("HOME").ok(): None when the variable is not set
parse_journal_pwd(lines, commandline, home) ==
    LET pkg_names == CandidateTokens(commandline)
    IN  IF pkg_names = <<>> THEN None
        ELSE IF home = None THEN None
        ELSE ScanJournal(lines, 1, pkg_names, home[1])

\* An audit line as sudo writes it: the keys present, and their values.
AuditLine(has_pwd, pwd, has_command, command) ==
    [has_pwd |-> has_pwd, pwd |-> pwd, has_command |-> has_command, command |-> command]

\* the text of an audit line
LineText(l) ==
    "Feb 10 21:50:50 host sudo[12345]:"
    \o (IF l.has_pwd THEN " PWD=" \o l.pwd \o " ; USER=root" ELSE " pam_unix(sudo:session): session opened")
    \o (IF l.has_command THEN " ; COMMAND=" \o l.command ELSE "")

JrHome == "/home/user"
JrHomes == {None, Some(JrHome)}

\* The lines of the model: a session line naming apt without keys, and
\* sudo lines run below the home directory, in it, next to it and elsewhere.
JrAuditLines ==
    {AuditLine(FALSE, "", FALSE, ""),
     AuditLine(TRUE, "/srv/www", FALSE, ""),
     AuditLine(TRUE, "/home/user/dotfiles", TRUE, "/usr/bin/apt-get install -y uidmap"),
     AuditLine(TRUE, "/home/user", TRUE, "/usr/bin/apt install bar"),
     AuditLine(TRUE, "/home/user2/proj", TRUE, "/usr/bin/apt-get install -y uidmap"),
     AuditLine(TRUE, "/srv/www", TRUE, "/usr/bin/apt install bar uidmap"),
     AuditLine(TRUE, "/var/tmp", TRUE, "/usr/bin/dpkg -i uidmap.deb")}

\* The command lines of the model, each with the package names it asks for.
JrCommandlines ==
    {[text |-> "apt-get install -y uidmap", packages |-> {"uidmap"}],
     [text |-> "apt install bar", packages |-> {"bar"}],
     [text |-> "apt-get -y install", packages |-> {}],
     [text |-> "apt-get install -y differentpackage", packages |-> {"differentpackage"}]}

InitJr ==
    /\ jr_lines = <<>>
    /\ jr_call = None

\* journalctl has written one more line
AppendAuditLine(l) ==
    /\ jr_call = None
    /\ Len(jr_lines) < MaxJournal
    /\ jr_lines' = Append(jr_lines, l)
    /\ UNCHANGED jr_call

CallParseJournalPwd(cl, home) ==
    /\ jr_call = None
    /\ jr_call' = Some([commandline |-> cl, home |-> home,
                        result |-> parse_journal_pwd([n \in 1..Len(jr_lines) |-> LineText(jr_lines[n])],
                                                     cl.text, home)])
    /\ UNCHANGED jr_lines

\* ----------------------------------------------------- parse_shell_history

\* i64::MAX and the magnitude of i64::MIN, in decimal
I64MaxText == "9223372036854775807"
I64MinText == "9223372036854775808"

IsDigit(c) == c # "" /\ Contains("0123456789", c)

\* the value of a run of decimal digits
RECURSIVE DigitsValue(_)
DigitsValue(s) ==
    IF s = "" THEN 0
    ELSE DigitsValue(SubSeq(s, 1, Len(s) - 1)) * 10 + (Find("0123456789", Char(s, Len(s))) - 1)

RECURSIVE StripZeros(_)
StripZeros(s) == IF Len(s) > 1 /\ Char(s, 1) = "0" THEN StripZeros(SubSeq(s, 2, Len(s))) ELSE s

\* the digits stand for a magnitude of at most limit (the checked
\* multiplication and addition of the parser do not overflow)
FitsI64(digits, limit) ==
    LET d == StripZeros(digits)
    IN  Len(d) < Len(limit) \/ (Len(d) = Len(limit) /\ ~StrLess(limit, d))

\* str::parse::<i64>: an optional sign and one or more digits, nothing else,
\* and a value an i64 holds; <<>> for Err
ParseI64(s) ==
    LET signed == s # "" /\ Char(s, 1) \in {"+", "-"}
        negative == signed /\ Char(s, 1) = "-"
        digits == IF signed THEN SubSeq(s, 2, Len(s)) ELSE s
    IN  IF digits = "" \/ \E i \in 1..Len(digits) : ~IsDigit(Char(digits, i)) THEN None
        ELSE IF ~FitsI64(digits, IF negative THEN I64MinText ELSE I64MaxText) THEN None
        ELSE Some(IF negative THEN 0 - DigitsValue(digits) ELSE DigitsValue(digits))

\* str::rsplit_once: the split at the last occurrence of sep
SplitOnce_Last(s, sep) ==
    LET hits == {i \in 1..Len(s) : Char(s, i) = sep}
        i == CHOOSE i \in hits : \A j \in hits : j <= i
    IN  IF hits = {} THEN None
        ELSE Some(<<SubSeq(s, 1, i - 1), SubSeq(s, i + 1, Len(s))>>)

\* str::split_once: the parts before and after the first occurrence of sep
SplitOnce(s, sep) ==
    LET i == Find(s, sep)
    IN  IF i = 0 THEN None
        ELSE Some(<<SubSeq(s, 1, i - 1), SubSeq(s, i + Len(sep), Len(s))>>)

\* the let chain of the loop body: <<>> for a skipped line, <<entry>> for a pushed one
ParseHistoryLine(line) ==
    IF ~StartsWith(line, ": ") THEN <<>>
    ELSE LET rest == StripPrefix(line, ": ")
             parts == SplitOnce(rest, ";")
         IN  IF parts = None THEN <<>>
             ELSE LET epoch_str == Head(Split(parts[1][1], ":"))
                      timestamp == ParseI64(epoch_str)
                  IN  IF timestamp = None THEN <<>>
                      ELSE <<ShellHistoryEntry(timestamp[1], parts[1][2])>>

RECURSIVE parse_shell_history(_)
parse_shell_history(lines) ==
    IF lines = <<>> THEN <<>>
    ELSE ParseHistoryLine(Head(lines)) \o parse_shell_history(Tail(lines))

\* A line of the extended zsh format as the shell writes it, with the epoch
\* it stands for, and a line of any other kind.
ZshLine(epoch_text, epoch, extra, command) ==
    [text |-> ": " \o epoch_text \o extra \o ";" \o command,
     shaped |-> TRUE, timestamp |-> epoch, command |-> command]
OtherLine(text) == [text |-> text, shaped |-> FALSE, timestamp |-> 0, command |-> ""]

\* The lines of the model: with and without the duration field, a command
\* holding semicolons, a signed epoch; and a plain command, a bash timestamp
\* comment, lines without semicolon or without the space, an epoch that is
\* no number and one that no i64 holds.
ShHistoryLines ==
    {ZshLine("1700000000", 1700000000, ":0", "git status"),
     ZshLine("1700000060", 1700000060, "", "cd ~/project"),
     ZshLine("1700000120", 1700000120, ":15", "make; make install; true"),
     ZshLine("-5", 0 - 5, ":0", ""),
     OtherLine("git status"),
     OtherLine("#1700000000"),
     OtherLine(": 1700000000:0 make"),
     OtherLine(":1700000000:0;make"),
     OtherLine(": invalid:0;make"),
     OtherLine(": 9223372036854775808:0;make")}

InitSh ==
    /\ sh_lines = <<>>
    /\ sh_call = None

\* the history file has one more line
AppendHistoryLine(l) ==
    /\ sh_call = None
    /\ Len(sh_lines) < MaxShellLines
    /\ sh_lines' = Append(sh_lines, l)
    /\ UNCHANGED sh_call

CallParseShellHistory ==
    /\ sh_call = None
    /\ sh_call' = Some(parse_shell_history([n \in 1..Len(sh_lines) |-> sh_lines[n].text]))
    /\ UNCHANGED sh_lines

\* ------------------------------------------------------------ package file

\* parse_packages: the trimmed lines that are neither empty nor comments,
\* collected into a BTreeSet
parse_packages(lines) ==
    {Trim(lines[n]) : n \in {m \in 1..Len(lines) :
                                 Trim(lines[m]) # "" /\ ~StartsWith(Trim(lines[m]), "#")}}

\* load_packages: the empty set when the file cannot be read
load_packages(file) == IF file = None THEN {} ELSE parse_packages(file[1])

\* save_packages: File::create, two comment lines, then one line per package
\* in the order of the BTreeSet
save_packages(pkgs) ==
    Some(<<"# apt-sync curated packages", "# one package per line, comments start with #">>
         \o AscendingSeq(pkgs))

\* the arguments main hands on: everything that does not start with '-'
PfNames == {"vim", "git", "curl", "#vim"}
PfArgs == UNION {[1..m -> PfNames] : m \in 1..MaxArgs}

\* files written by hand: padding, a blank line, a comment, a repeated name
PfHandWritten ==
    {<<"# my packages", "  vim  ", "", "git", "vim">>, <<"curl">>}

InitPf ==
    /\ pf_file = None
    /\ pf_prev = {}
    /\ pf_op = [kind |-> "none", names |-> <<>>]

\* the user writes the file in an editor before the first operation
EditFile(lines) ==
    /\ pf_file = None
    /\ pf_file' = Some(lines)
    /\ pf_prev' = {}
    /\ pf_op' = [kind |-> "edit", names |-> <<>>]

\* pkgs.insert for every name, then save_packages
cmd_add(names) ==
    LET pkgs == load_packages(pf_file)
    IN  /\ pf_file' = save_packages(pkgs \cup ToSet(names))
        /\ pf_prev' = pkgs
        /\ pf_op' = [kind |-> "add", names |-> names]

\* pkgs.remove for every name, then save_packages
cmd_remove(names) ==
    LET pkgs == load_packages(pf_file)
    IN  /\ pf_file' = save_packages(pkgs \ ToSet(names))
        /\ pf_prev' = pkgs
        /\ pf_op' = [kind |-> "remove", names |-> names]

\* -------------------------------------------------------- read_history_logs

\* Path::extension: the text after the last '.' of the file name, None
\* without a '.' or when the only '.' leads the name
Extension(name) ==
    LET dots == {i \in 1..Len(name) : Char(name, i) = "."}
        last == CHOOSE i \in dots : \A j \in dots : j <= i
    IN  IF dots = {} THEN None
        ELSE IF last = 1 THEN None
        ELSE Some(SubSeq(name, last + 1, Len(name)))

\* the filter of read_history_logs
IsRotatedHistory(name) == Extension(name) = Some("gz") /\ StartsWith(name, "history")

\* Vec::reverse
Reverse(seq) == [i \in 1..Len(seq) |-> seq[Len(seq) + 1 - i]]

\* gz_paths after sort() and reverse(): paths of one directory compare as
\* their file names do, byte by byte
gz_paths(dir) == Reverse(AscendingSeq({name \in dir : IsRotatedHistory(name)}))

\* read_history_logs: buf as the files whose contents it holds, in order;
\* zcat is whether the command could be run, current whether history.log
\* could be read
read_history_logs(dir, zcat, current) ==
    (IF gz_paths(dir) # <<>> /\ zcat THEN gz_paths(dir) ELSE <<>>)
    \o (IF current THEN <<"history.log">> ELSE <<>>)

\* the n-th rotated segment as logrotate names it
SegmentName(n) == "history.log." \o ToDecimal(n) \o ".gz"

\* other files of /var/log/apt
OtherFiles == {"term.log.1.gz", "history.log.1", "eipp.log.xz"}

InitLogs ==
    /\ apt_dir = {}
    /\ rotated = 0
    /\ logs_call = None

\* logrotate: every segment moves up by one and history.log becomes segment 1
Rotate ==
    /\ logs_call = None
    /\ rotated < MaxRotated
    /\ rotated' = rotated + 1
    /\ apt_dir' = apt_dir \cup {SegmentName(rotated + 1)}
    /\ UNCHANGED logs_call

\* another file appears in the directory
AddOtherFile(name) ==
    /\ logs_call = None
    /\ name \notin apt_dir
    /\ apt_dir' = apt_dir \cup {name}
    /\ UNCHANGED <<rotated, logs_call>>

CallReadHistoryLogs(zcat, current) ==
    /\ logs_call = None
    /\ logs_call' = Some([zcat |-> zcat, current |-> current,
                          buf |-> read_history_logs(apt_dir, zcat, current)])
    /\ UNCHANGED <<apt_dir, rotated>>

\* -------------------------------------------------------- specifications

Init == InitHist /\ InitPkgs /\ InitCo /\ InitNear /\ InitWhy /\ InitJr /\ InitSh /\ InitPf /\ InitLogs

Next == \E line \in LogLines : ScanLine(line) /\ UNCHANGED notHist

Spec == Init /\ [][Next]_vars

NextPkgs ==
    \/ \E name \in PkgNames, rest \in PkgRests :
           AppendPkgEntry(name, rest) /\ UNCHANGED notPkgs
    \/ CallParsePackages /\ UNCHANGED notPkgs

SpecPkgs == Init /\ [][NextPkgs]_vars

NextCo ==
    \/ \E stamp \in CoStamps, inst \in CoInstalled :
           PushEntry(stamp, inst) /\ UNCHANGED notCo
    \/ \E i \in 1..MaxEntries, name \in CoNames :
           CallSiblings(i, name) /\ UNCHANGED notCo
    \/ \E i \in 1..MaxEntries, name \in CoNames, sibling_set \in CoSiblingSets :
           CallSameDayNeighbors(i, name, sibling_set) /\ UNCHANGED notCo
    \/ \E i \in 1..MaxEntries, name \in CoNames :
           WhyEvent(i, name) /\ UNCHANGED notCo
    \/ \E pkg \in CoQueries :
           CallFindInstallHistory(pkg) /\ UNCHANGED notCo

SpecCo == Init /\ [][NextCo]_vars

NextNear ==
    \/ \E rec \in NearRecords :
           PushShellEntry(rec) /\ UNCHANGED notNear
    \/ \E target_epoch \in NearTargets, window_secs \in NearWindows, show_all \in BOOLEAN,
          overflow_checks \in BOOLEAN :
           CallFindNearby(target_epoch, window_secs, show_all, overflow_checks)
           /\ UNCHANGED notNear

SpecNear == Init /\ [][NextNear]_vars

NextNearOrd ==
    \/ \E rec \in NearOrdRecords :
           PushShellEntry(rec) /\ UNCHANGED notNear
    \/ \E target_epoch \in NearTargets, window_secs \in NearWindows, overflow_checks \in BOOLEAN :
           CallFindNearby(target_epoch, window_secs, FALSE, overflow_checks)
           /\ UNCHANGED notNear

SpecNearOrd == Init /\ [][NextNearOrd]_vars

NamesUpTo(n) == UNION {[1..m -> WhyNameSet] : m \in 0..n}

WhyEnter == \E names \in NamesUpTo(MaxNames), es \in WhyLogs : WhyStart(names, es)

\* what a pass of the inner loop does to its counter
WhyHitAdvance == why_pc = "hit" /\ why_k < Len(why_hits) /\ why_k' = why_k + 1

NextWhy ==
    \/ WhyEnter /\ UNCHANGED notWhy
    \/ WhyName /\ UNCHANGED notWhy
    \/ \E pwd \in WhyPwds, epoch \in WhyEpochs :
           WhyHit(pwd, epoch) /\ UNCHANGED notWhy
    \/ WhyReturn /\ UNCHANGED notWhy

\* every step of cmd_why returns (the external commands are waited for with
\* output()), so the loops run on until they are exhausted
SpecWhy ==
    /\ Init /\ [][NextWhy]_vars
    /\ WF_whyVars(WhyEnter) /\ WF_whyVars(WhyName)
    /\ WF_why_k(WhyHitAdvance) /\ WF_whyVars(WhyReturn)

NextJr ==
    \/ \E l \in JrAuditLines : AppendAuditLine(l) /\ UNCHANGED notJr
    \/ \E cl \in JrCommandlines, home \in JrHomes :
           CallParseJournalPwd(cl, home) /\ UNCHANGED notJr

SpecJr == Init /\ [][NextJr]_vars

NextSh ==
    \/ \E l \in ShHistoryLines : AppendHistoryLine(l) /\ UNCHANGED notSh
    \/ CallParseShellHistory /\ UNCHANGED notSh

SpecSh == Init /\ [][NextSh]_vars

NextPf ==
    \/ \E lines \in PfHandWritten : EditFile(lines) /\ UNCHANGED notPf
    \/ \E names \in PfArgs : cmd_add(names) /\ UNCHANGED notPf
    \/ \E names \in PfArgs : cmd_remove(names) /\ UNCHANGED notPf

SpecPf == Init /\ [][NextPf]_vars

NextLogs ==
    \/ Rotate /\ UNCHANGED notLogs
    \/ \E name \in OtherFiles : AddOtherFile(name) /\ UNCHANGED notLogs
    \/ \E zcat \in BOOLEAN, current \in BOOLEAN :
           CallReadHistoryLogs(zcat, current) /\ UNCHANGED notLogs

SpecLogs == Init /\ [][NextLogs]_vars

NextNearWide ==
    \/ \E rec \in NearWideRecords : PushShellEntry(rec) /\ UNCHANGED notNear
    \/ \E target_epoch \in NearWideTargets, window_secs \in NearWindows, overflow_checks \in BOOLEAN :
           CallFindNearby(target_epoch, window_secs, FALSE, overflow_checks)
           /\ UNCHANGED notNear

SpecNearWide == Init /\ [][NextNearWide]_vars

\* ------------------------------------------------ claims: parse_history

IsStartLine(line) == StartsWith(line, "Start-Date: ")
IsEndLine(line) == StartsWith(line, "End-Date: ")

\* the highest index in lo..hi of a line of l starting with p, 0 when none
LastWithPrefix(l, lo, hi, p) ==
    LET hits == {i \in lo..hi : StartsWith(l[i], p)}
    IN  IF hits = {} THEN 0 ELSE CHOOSE i \in hits : \A j \in hits : j <= i

\* the trimmed value of line i of l after the label p
ValueOf(l, i, p) == Trim(StripPrefix(l[i], p))

\* C1: every event parse_history has emitted carries a non-empty installed
\* list; a transaction whose install list is absent or filters down to
\* nothing is therefore never among the events.
C1_EventsNonEmpty ==
    \A i \in 1..Len(entries) : entries[i].installed # <<>>

\* C1 witness: a full Start / all-automatic Install / End transaction was
\* scanned and emitted nothing, and a later transaction did emit an event.
C1_Witness ==
    /\ Len(log) = 6
    /\ IsStartLine(log[1])
    /\ log[2] = "Install: make:amd64 (4.4, automatic)"
    /\ IsEndLine(log[3])
    /\ IsStartLine(log[4])
    /\ IsEndLine(log[6])
    /\ Len(entries) = 1
    /\ entries[1].installed = <<"uidmap">>

\* C2: an event is appended only at an End-Date line that a Start-Date line
\* precedes in the input, and the event's date is the (trimmed) value of that
\* Start-Date line, the last one before the End-Date line.
C2_EventOnlyAfterStart ==
    [][entries' # entries =>
        LET n == Len(log')
            s == LastWithPrefix(log', 1, n - 1, "Start-Date: ")
        IN  /\ IsEndLine(log'[n])
            /\ s # 0
            /\ entries'[Len(entries')].date = ValueOf(log', s, "Start-Date: ")]_vars

\* C3: the event appended at an End-Date line is made only of the lines after
\* the last Start-Date line before it: its packages, command line and
\* requester come from that segment (absent there, they are empty), so nothing
\* an interrupted transaction set survives the next Start-Date line; and an
\* End-Date line whose segment has no Install line appends nothing.
C3_InterruptedLeavesNothing ==
    [][entries' # entries =>
        LET n == Len(log')
            s == LastWithPrefix(log', 1, n - 1, "Start-Date: ")
            c == LastWithPrefix(log', s + 1, n - 1, "Commandline: ")
            r == LastWithPrefix(log', s + 1, n - 1, "Requested-By: ")
            i == LastWithPrefix(log', s + 1, n - 1, "Install: ")
            e == entries'[Len(entries')]
        IN  /\ entries' = Append(entries, e)
            /\ i # 0
            /\ e.installed = parse_history_packages(StripPrefix(log'[i], "Install: "))
            /\ e.commandline = (IF c = 0 THEN "" ELSE ValueOf(log', c, "Commandline: "))
            /\ e.requested_by = (IF r = 0 THEN None ELSE Some(ValueOf(log', r, "Requested-By: ")))
            /\ (s # 0 => e.date = ValueOf(log', s, "Start-Date: "))]_vars

\* C3 witness: a transaction that set a command line, a requester or packages
\* was cut short by a second Start-Date line, and the second transaction
\* emitted an event that has none of them.
C3_Witness ==
    /\ Len(log) = 6
    /\ log[1] = "Start-Date: 2025-08-10  10:00:00"
    /\ log[2] = "Commandline: apt-get install uidmap"
    /\ log[3] = "Requested-By: user (1000)"
    /\ log[4] = "Start-Date: 2025-08-10  14:00:00 "
    /\ log[5] = "Install: uidmap:amd64 (1.0), gcc:amd64 (4:15.2, automatic)"
    /\ IsEndLine(log[6])
    /\ entries = <<HistoryEntry("2025-08-10  14:00:00", "", None, <<"uidmap">>)>>

\* --------------------------------------- claims: parse_history_packages

\* the names the install list was written with, less the entries that carry
\* the text "automatic" and those with an empty name
RECURSIVE WrittenNames(_)
WrittenNames(es) ==
    IF es = <<>> THEN <<>>
    ELSE LET e == Head(es)
         IN  (IF e.name # "" /\ ~Contains(e.name \o e.rest, "automatic")
              THEN <<e.name>> ELSE <<>>) \o WrittenNames(Tail(es))

\* C4: parse_history_packages returns, in input order, exactly the names of
\* the entries of the line that are not marked automatic and have a non-empty
\* name; an entry whose version text has several commas is one entry.
C4_PackagesExact ==
    pkgs_result # None => pkgs_result[1] = WrittenNames(pkg_entries)

\* C4 witness: a line with a multi-comma non-automatic entry, an automatic
\* entry and an entry with an empty name has been parsed to the one name.
C4_Witness ==
    /\ pkgs_result = Some(<<"gcc">>)
    /\ Len(pkg_entries) = 3
    /\ pkg_entries[1] = [name |-> "make", rest |-> ":amd64 (4:15.2, automatic)"]
    /\ pkg_entries[2] = [name |-> "gcc", rest |-> ":amd64 (3.13.7-1, 3.13.7-2, 3.14)"]
    /\ pkg_entries[3].name = ""

\* ------------------------------------------------ claims: co-occurrence

CoCalled(fns) == co_call # None /\ co_call[1].fn \in fns

\* C5: siblings(event, name) is event.installed with the entries equal to
\* name taken out and the others left in their order; it never holds name and
\* holds nothing that is not in event.installed.
C5_SiblingsSubsequence ==
    CoCalled({"siblings", "cmd_why"}) =>
        LET c == co_call[1]
        IN  /\ c.sibs = SelectSeq(c.entry.installed, LAMBDA p : p # c.name)
            /\ c.name \notin ToSet(c.sibs)
            /\ ToSet(c.sibs) \subseteq ToSet(c.entry.installed)

\* C5 witness: siblings was called with a name the event installed twice
\* among other packages, and returned the others in their order.
C5_Witness ==
    /\ CoCalled({"siblings"})
    /\ co_call[1].entry.installed = <<"podman", "aardvark-dns", "pod", "podman">>
    /\ co_call[1].name = "podman"
    /\ co_call[1].sibs = <<"aardvark-dns", "pod">>

\* C6: the result of same_day_neighbors shares no package with the sibling
\* set it was given and never holds name; so the siblings and the same-day
\* neighbours cmd_why reports for one event share no package.
C6_NeighborsDisjoint ==
    CoCalled({"same_day_neighbors", "cmd_why"}) =>
        LET c == co_call[1]
        IN  /\ ToSet(c.neighbors) \cap c.sibling_set = {}
            /\ c.name \notin ToSet(c.neighbors)
            /\ c.fn = "cmd_why" => ToSet(c.neighbors) \cap ToSet(c.sibs) = {}

\* C6 witness: cmd_why reported an event whose sibling was installed again
\* by another event of the same day, next to packages that are neighbours.
C6_Witness ==
    /\ CoCalled({"cmd_why"})
    /\ co_call[1].name = "uidmap"
    /\ co_call[1].sibs = <<"aardvark-dns">>
    /\ co_call[1].neighbors = <<"pod", "podman">>
    /\ \E i \in 1..Len(co_entries) :
           /\ co_entries[i].date = "2025-08-10  14:00:00"
           /\ co_entries[i].installed = <<"podman", "aardvark-dns", "pod", "podman">>

\* the events of es that differ from entry in date text or in command line
\* and whose first date token is entry's
OtherEventsOfDay(es, entry) ==
    {i \in 1..Len(es) :
        /\ (es[i].date # entry.date \/ es[i].commandline # entry.commandline)
        /\ DayOf(es[i].date) = DayOf(entry.date)}

\* C7: same_day_neighbors returns the packages installed by the other events
\* of the given event's day, less name and less the sibling set, each once,
\* in ascending lexicographic order.
C7_NeighborsExact ==
    CoCalled({"same_day_neighbors", "cmd_why"}) =>
        LET c == co_call[1]
            others == OtherEventsOfDay(co_entries, c.entry)
            pkgs == UNION {ToSet(co_entries[i].installed) : i \in others}
        IN  /\ ToSet(c.neighbors) = (pkgs \ {c.name}) \ c.sibling_set
            /\ \A i \in 1..Len(c.neighbors), j \in 1..Len(c.neighbors) :
                   i < j => StrLess(c.neighbors[i], c.neighbors[j])

\* C7 witness: the scenario of the spec, with a third event on another day
\* that contributes nothing.
C7_Witness ==
    /\ CoCalled({"same_day_neighbors"})
    /\ Len(co_entries) = 3
    /\ co_call[1].entry = co_entries[1]
    /\ co_entries[1].date = "2025-08-10  10:00:00"
    /\ co_entries[1].installed = <<"uidmap", "aardvark-dns">>
    /\ co_entries[2].date = "2025-08-10  14:00:00"
    /\ co_entries[2].installed = <<"podman", "aardvark-dns", "pod", "podman">>
    /\ co_entries[3].date = "2025-08-11  10:00:00"
    /\ co_entries[3].installed = <<"podman", "aardvark-dns", "pod", "podman">>
    /\ co_call[1].name = "uidmap"
    /\ co_call[1].sibling_set = {"aardvark-dns"}
    /\ co_call[1].neighbors = <<"pod", "podman">>

\* --------------------------------------- claims: find_nearby_commands

HasAptInstall(cmd) == Contains(cmd, "apt-get install") \/ Contains(cmd, "apt install")

FirstToken(cmd) == FirstOr(SplitWhitespace(cmd), "")

IsTrivial(cmd) ==
    FirstToken(cmd) \in {"ls", "clear", "exit", "pwd", "echo", "cat", "true", "history", ""}

\* the records of the history within the window of a call
InWindow(c) ==
    {i \in 1..Len(shell_history) :
        Abs(shell_history[i].timestamp - c.target_epoch) <= c.window_secs}

\* the records within the window that the exclusion filters of a call let pass
Survivors(c) ==
    {i \in InWindow(c) :
        /\ ~HasAptInstall(shell_history[i].command)
        /\ (c.show_all \/ ~IsTrivial(shell_history[i].command))}

\* C8: find_nearby_commands returns at most 5 commands, and exactly 5 when
\* at least 5 records within the window survive the exclusion filters.
C8_CapAtFive ==
    near_call # None =>
        /\ Len(near_call[1].result) <= 5
        /\ Cardinality(Survivors(near_call[1])) >= 5 => Len(near_call[1].result) = 5

\* C8 witness: the nearest record is an excluded install command and five
\* others survive; all five are returned.
C8_Witness ==
    /\ near_call # None
    /\ Len(shell_history) = 6
    /\ shell_history[1].command = "apt install bar"
    /\ Cardinality(Survivors(near_call[1])) = 5
    /\ Len(near_call[1].result) = 5

\* C9: no returned command contains "apt-get install" or "apt install",
\* whatever show_all is.
C9_NoAptInstall ==
    near_call # None =>
        \A k \in 1..Len(near_call[1].result) :
            /\ ~Contains(near_call[1].result[k], "apt-get install")
            /\ ~Contains(near_call[1].result[k], "apt install")

\* C9 witness: with show_all set, both kinds of install command were within
\* the window and something else was returned.
C9_Witness ==
    /\ near_call # None
    /\ near_call[1].show_all
    /\ \E i \in InWindow(near_call[1]) : shell_history[i].command = "apt install bar"
    /\ \E i \in InWindow(near_call[1]) : shell_history[i].command = "sudo apt-get install -y foo"
    /\ near_call[1].result = <<"ls -la">>

\* C10: without show_all no returned command has a trivial first token (or no
\* token); with show_all the trivial commands within the window are returned
\* like the others: only install commands are left out, up to the cap.
C10_TrivialFilter ==
    near_call # None =>
        LET c == near_call[1]
            eligible == {i \in InWindow(c) : ~HasAptInstall(shell_history[i].command)}
        IN  /\ ~c.show_all => \A k \in 1..Len(c.result) : ~IsTrivial(c.result[k])
            /\ c.show_all =>
                   /\ Len(c.result) = (IF Cardinality(eligible) < 5 THEN Cardinality(eligible) ELSE 5)
                   /\ Cardinality(eligible) <= 5 =>
                          \A i \in eligible : shell_history[i].command \in ToSet(c.result)

\* C10 witness: without show_all, a listing and an empty command within the
\* window were dropped and the one interesting command was returned.
C10_Witness ==
    /\ near_call # None
    /\ ~near_call[1].show_all
    /\ \E i \in InWindow(near_call[1]) : shell_history[i].command = "ls -la"
    /\ \E i \in InWindow(near_call[1]) : shell_history[i].command = ""
    /\ near_call[1].result = <<"git status">>

\* ------------------------- claims: find_nearby_commands, order and window

DistanceOf(c, i) == Abs(shell_history[i].timestamp - c.target_epoch)

\* record i comes before record j: nearer, or as near and earlier in the history
Precedes(c, i, j) ==
    \/ DistanceOf(c, i) < DistanceOf(c, j)
    \/ DistanceOf(c, i) = DistanceOf(c, j) /\ i < j

\* the record of surv with k - 1 records of surv before it
RankedSurvivor(c, surv, k) ==
    CHOOSE i \in surv : Cardinality({j \in surv : Precedes(c, j, i)}) = k - 1

\* C11: the returned commands are those of the surviving records taken by
\* non-decreasing distance to the target, records at equal distance in their
\* order in the history.
C11_ProximityOrder ==
    near_call # None =>
        LET c == near_call[1]
            surv == Survivors(c)
        IN  /\ Len(c.result) <= Cardinality(surv)
            /\ \A k \in 1..Len(c.result) :
                   c.result[k] = shell_history[RankedSurvivor(c, surv, k)].command

\* C11 witness: two records at distance 100 on either side of the target,
\* the later one first in the history, and a nearer-listed record at distance
\* 200; the result has the tie in history order, then the farther record.
C11_Witness ==
    /\ near_call # None
    /\ Len(shell_history) >= 3
    /\ shell_history[1] = ShellHistoryEntry(1000, "git status")
    /\ shell_history[2] = ShellHistoryEntry(1300, "make")
    /\ shell_history[3] = ShellHistoryEntry(1100, "cd ~/project")
    /\ Len(near_call[1].result) >= 3
    /\ SubSeq(near_call[1].result, 1, 3) = <<"make", "cd ~/project", "git status">>

\* the distance of the record a command of the ordering runs belongs to
\* (there each command has one epoch)
DistanceOfCommand(c, cmd) ==
    LET i == CHOOSE i \in 1..Len(shell_history) : shell_history[i].command = cmd
    IN  DistanceOf(c, i)

\* C12: every returned command is that of a record at most window_secs from
\* the target (the boundary included), and a surviving record within the
\* window is left out only when five records no farther than it were returned.
C12_WindowAndOmission ==
    near_call # None =>
        LET c == near_call[1]
            surv == Survivors(c)
            returned == ToSet(c.result)
        IN  /\ \A k \in 1..Len(c.result) :
                   \E i \in 1..Len(shell_history) :
                       /\ shell_history[i].command = c.result[k]
                       /\ DistanceOf(c, i) <= c.window_secs
            /\ \A i \in surv :
                   shell_history[i].command \notin returned =>
                       /\ Len(c.result) = 5
                       /\ \A k \in 1..5 : DistanceOfCommand(c, c.result[k]) <= DistanceOf(c, i)
            /\ Len(c.result) < 5 => Len(c.result) = Cardinality(surv)

\* C12 witness: the scenario of the spec: records at 1000, 1100, 1500 and
\* 1800 queried at 1200 with window 300 give exactly the first three.
C12_Witness ==
    /\ near_call # None
    /\ near_call[1].target_epoch = 1200
    /\ near_call[1].window_secs = 300
    /\ shell_history = <<ShellHistoryEntry(1000, "git status"),
                         ShellHistoryEntry(1100, "cd ~/project"),
                         ShellHistoryEntry(1500, "make build"),
                         ShellHistoryEntry(1800, "vim README.md")>>
    /\ ToSet(near_call[1].result) = {"git status", "cd ~/project", "make build"}
    /\ Len(near_call[1].result) = 3

\* ------------------------------------------------ claims: find_install_history

\* the positions of the events whose installed list has pkg as an element
HitPositions(pkg) == {i \in 1..Len(co_entries) : pkg \in ToSet(co_entries[i].installed)}

\* the k-th smallest position of a set of positions
KthPosition(set, k) == CHOOSE i \in set : Cardinality({j \in set : j < i}) = k - 1

\* C14: find_install_history returns all and only the events whose installed
\* list contains pkg as an equal string, in their order in the event
\* sequence, and nothing when no event contains it.
C14_HistoryExact ==
    CoCalled({"find_install_history"}) =>
        LET c == co_call[1]
            pos == HitPositions(c.name)
        IN  /\ Len(c.hits) = Cardinality(pos)
            /\ \A k \in 1..Len(c.hits) : c.hits[k] = co_entries[KthPosition(pos, k)]
            /\ (pos = {} => c.hits = <<>>)

\* a lookup that skips the middle event and returns the other two in order
C14_Witness ==
    /\ CoCalled({"find_install_history"})
    /\ co_call[1].name = "podman"
    /\ Len(co_entries) = 3
    /\ co_entries[1].date # co_entries[3].date
    /\ co_entries[2].installed = <<"uidmap", "aardvark-dns">>
    /\ co_call[1].hits = <<co_entries[1], co_entries[3]>>

\* ---------------------------------------------------------------- claims: cmd_why

\* the lines that open a group: a package header or a "no install history" line
Headers == SelectSeq(why_out, LAMBDA l : l.kind \in {"name", "none"})

\* some event of the parsed log lists the name among its installed packages
HasHistory(name) ==
    \E i \in 1..Len(why_entries) : name \in ToSet(why_entries[i].installed)

\* the names whose group has been opened
GroupsOpened == why_i + (IF why_pc = "hit" THEN 1 ELSE 0)

C13_GroupsInOrder ==
    /\ Len(Headers) = GroupsOpened
    /\ Len(Headers) <= Len(why_names)
    /\ \A g \in 1..Len(Headers) :
           /\ Headers[g].a = why_names[g]
           /\ Headers[g].kind = (IF HasHistory(why_names[g]) THEN "name" ELSE "none")
    /\ (why_pc = "done" => Len(Headers) = Len(why_names))

\* C13: cmd_why opens one group per queried name in the order of the names, a
\* name without a matching event gets a "no install history" group and the
\* names after it are still processed, and the run reaches its end.
C13_SequentialToCompletion == []C13_GroupsInOrder /\ <>(why_pc = "done")

\* a name without history first, and the name after it still reported
C13_Witness ==
    /\ why_pc = "done"
    /\ why_names = <<"vim", "podman">>
    /\ Len(why_entries) = 3
    /\ Headers = <<OutLine("none", "vim", ""), OutLine("name", "podman", "")>>

\* the position in why_out of the date line of the h-th hit processed
DateLineOf(h) ==
    CHOOSE p \in 1..Len(why_out) :
        /\ why_out[p].kind = "date"
        /\ Cardinality({q \in 1..p : why_out[q].kind = "date"}) = h

\* the kinds of the lines of the h-th hit: from its date line up to the next
\* date line, group header or blank line
BlockKinds(h) ==
    LET p == DateLineOf(h)
        stops == {q \in (p + 1)..Len(why_out) :
                      why_out[q].kind \in {"date", "name", "none", "blank"}}
        last == IF stops = {} THEN Len(why_out)
                ELSE (CHOOSE q \in stops : \A r \in stops : q <= r) - 1
    IN  {why_out[q].kind : q \in p..last}

\* the events of a name, counted over the names whose group is complete
HitsOfFinished ==
    LET Count(name) == Cardinality({i \in 1..Len(why_entries) :
                                        name \in ToSet(why_entries[i].installed)})
        Sum[g \in 0..why_i] == IF g = 0 THEN 0 ELSE Sum[g - 1] + Count(why_names[g])
    IN  Sum[why_i]

\* C18: whatever the journal lookup and the timestamp normalization answer
\* for an event, its date and command, its siblings and its same-day
\* neighbours are reported, the context line appears exactly when the
\* journal answered, shell commands appear only when the timestamp was
\* normalized, and every event of every name is still processed.
C18_FailureIsolated ==
    /\ Cardinality({p \in 1..Len(why_out) : why_out[p].kind = "date"}) = Len(why_ext)
    /\ \A h \in 1..Len(why_ext) :
           LET x == why_ext[h]
               line == why_out[DateLineOf(h)]
               kinds == BlockKinds(h)
               others == ToSet(x.entry.installed) \ {x.name}
               day == {i \in 1..Len(why_entries) :
                          /\ DayOf(why_entries[i].date) = DayOf(x.entry.date)
                          /\ why_entries[i] # x.entry}
               also == UNION {ToSet(why_entries[i].installed) : i \in day}
                       \ ({x.name} \cup others)
           IN  /\ x.name \in ToSet(x.entry.installed)
               /\ line.a = DayOf(x.entry.date) /\ line.b = x.entry.commandline
               /\ ("in" \in kinds) = (x.pwd # None)
               /\ ("with" \in kinds) = (others # {})
               /\ ("also" \in kinds) = (also # {})
               /\ (x.epoch = None => "around" \notin kinds /\ "cmd" \notin kinds)
    /\ (why_pc \in {"name", "done"} => Len(why_ext) = HitsOfFinished)

\* both sources fail for the first event of a name; the event is reported
\* with its siblings and neighbours, and the second event follows with both
C18_Witness ==
    /\ why_pc = "done"
    /\ why_names = <<"podman">>
    /\ Len(why_ext) = 2
    /\ why_ext[1].pwd = None /\ why_ext[1].epoch = None
    /\ why_ext[2].pwd # None /\ why_ext[2].epoch # None
    /\ BlockKinds(1) = {"date", "with", "also"}
    /\ "in" \in BlockKinds(2) /\ "around" \in BlockKinds(2)

\* ------------------------------------------------ claims: parse_journal_pwd

\* an audit line as written qualifies for the packages of a command line
Qualifies(l, packages) ==
    /\ l.has_pwd /\ l.has_command
    /\ Contains(l.command, "apt")
    /\ \E p \in packages : Contains(l.command, p)

\* the positions of the qualifying lines of the journal
QualifyingLines(c) == {n \in 1..Len(jr_lines) : Qualifies(jr_lines[n], c.commandline.packages)}

FirstQualifying(c) == CHOOSE n \in QualifyingLines(c) : \A m \in QualifyingLines(c) : n <= m

\* r shows the directory p: p itself, or p with a leading part replaced by "~"
Shows(r, p) ==
    \/ r = p
    \/ \E n \in 1..Len(p) : r = "~" \o SubSeq(p, n + 1, Len(p))

\* C15: parse_journal_pwd returns the working directory of the first line
\* that has PWD= and COMMAND= and whose command contains "apt" and a
\* candidate package token; it returns nothing when no line qualifies or
\* the command line leaves no candidate, and later qualifying lines never
\* change the result.
C15_FirstQualifyingLine ==
    jr_call # None =>
        LET c == jr_call[1]
        IN  IF c.commandline.packages = {} \/ QualifyingLines(c) = {}
            THEN c.result = None
            ELSE /\ c.result # None
                 /\ Shows(c.result[1], jr_lines[FirstQualifying(c)].pwd)

\* p is the home directory or a path below it
UnderHome(p, home) == p = home \/ StartsWith(p, home \o "/")

\* C16: on acceptance the home-directory prefix of a path under the home
\* directory is replaced with "~" (the home directory itself gives "~"), and
\* any other path is returned verbatim.
C16_TildeOnlyUnderHome ==
    (jr_call # None /\ jr_call[1].result # None) =>
        LET c == jr_call[1]
            p == jr_lines[FirstQualifying(c)].pwd
        IN  c.result[1] = (IF UnderHome(p, c.home[1])
                           THEN "~" \o SubSeq(p, Len(c.home[1]) + 1, Len(p))
                           ELSE p)

\* ---------------------------------------------- claims: parse_shell_history

\* the positions of the lines written in the extended format
ShapedLines == {n \in 1..Len(sh_lines) : sh_lines[n].shaped}

\* C17: parse_shell_history returns one record per line of the shape
\* ": <epoch>[:<extra>];<command>" with an integer epoch, carrying that epoch
\* and the text after the first ';', in input order; every other line is
\* skipped and leaves the records of the other lines as they are.
C17_ExactlyZshLines ==
    sh_call # None =>
        LET result == sh_call[1]
        IN  /\ Len(result) = Cardinality(ShapedLines)
            /\ \A k \in 1..Len(result) :
                   LET l == sh_lines[KthPosition(ShapedLines, k)]
                   IN  result[k] = ShellHistoryEntry(l.timestamp, l.command)

\* a command holding semicolons between a bash line and a line without the
\* duration field
C17_Witness ==
    /\ sh_call # None
    /\ Len(sh_lines) = 3
    /\ sh_lines[1].text = "#1700000000"
    /\ sh_lines[2].text = ": 1700000120:15;make; make install; true"
    /\ sh_call[1] = <<ShellHistoryEntry(1700000120, "make; make install; true"),
                      ShellHistoryEntry(1700000060, "cd ~/project")>>

\* ------------------------------------------------------ claims: package file

\* C19: after cmd_add load_packages returns the previous set plus the added
\* names, after cmd_remove the previous set minus the removed names, and
\* saving what was loaded and loading it again returns the same set.
C19_FileIsASet ==
    LET now == load_packages(pf_file)
    IN  /\ (pf_op.kind = "add" => now = pf_prev \cup ToSet(pf_op.names))
        /\ (pf_op.kind = "remove" => now = pf_prev \ ToSet(pf_op.names))
        /\ load_packages(save_packages(now)) = now

\* ------------------------------------------------ claims: read_history_logs

\* the age of a file of buf: the rotation number of a segment, 0 for the
\* current log
AgeOf(name) ==
    IF name = "history.log" THEN 0
    ELSE CHOOSE n \in 1..rotated : SegmentName(n) = name

\* C20: read_history_logs concatenates the rotated segments from the highest
\* rotation number down to the lowest and the current log last, whatever
\* the number of segments, so the concatenation runs from the oldest text
\* to the newest.
C20_OldestFirst ==
    logs_call # None =>
        LET c == logs_call[1]
        IN  /\ \A i, j \in 1..Len(c.buf) : i < j => AgeOf(c.buf[i]) > AgeOf(c.buf[j])
            /\ (c.zcat => \A n \in 1..rotated : \E i \in 1..Len(c.buf) : c.buf[i] = SegmentName(n))
            /\ (c.current => c.buf # <<>> /\ c.buf[Len(c.buf)] = "history.log")

\* ------------------------------------- claims: parse_history, one event each

\* the Start-Date lines among the lines scanned so far
StartsScanned == Cardinality({n \in 1..Len(log) : IsStartLine(log[n])})

\* C21: after any prefix of the input the number of emitted events is at
\* most the number of Start-Date lines scanned, so an End-Date line that
\* follows an End-Date line without a Start-Date line between them emits
\* nothing.
C21_OneEventPerTransaction == Len(entries) <= StartsScanned

\* ------------------------------------ claims: find_nearby_commands, overflow

\* C22: for every record and every target epoch the distance is computed
\* without overflow: the call does not panic, the distance of each record is
\* |timestamp - target_epoch|, and so only records within the window are
\* reported.
C22_DistanceNeverOverflows ==
    near_call # None =>
        LET c == near_call[1]
        IN  /\ ~c.panicked
            /\ \A n \in 1..Len(shell_history) :
                   Delta(shell_history[n].timestamp, c.target_epoch)
                       = Abs(shell_history[n].timestamp - c.target_epoch)
            /\ \A k \in 1..Len(c.result) :
                   \E n \in 1..Len(shell_history) :
                       /\ shell_history[n].command = c.result[k]
                       /\ Abs(shell_history[n].timestamp - c.target_epoch) <= c.window_secs

====
